---- MODULE Spec2Model ----
\* decor/observe (src/observe.js): change observation over plain objects.
\* The module is single threaded: every handler below runs to completion, one
\* call of deliverAllByTimeout is followed pass by pass and delivery by delivery.
\*
\* Domain of the model: plain records, tree shaped or sharing nested records,
\* never cyclic.  Their property names are ordinary names, but for valueOf of
\* object k, which shadows a member of Object.prototype.  JavaScript values are written as strings:
\* "undefined", "null", "NaN", "+0", "-0", "1", "2", ... and an object is written
\* as its identity, a member of Objs.  A built-in is written as the place it is
\* found at: "Object.prototype", "function Object.prototype.valueOf".
EXTENDS Integers, Sequences, FiniteSets, TLC

VARIABLES
  val,            \* object -> property -> value: the property, or its shadow curVal (line 43)
  map,            \* the WeakMap of line 28: instrumented object -> its array `callbacks`
  captured,       \* instrumented object -> the `callback` its accessors closed over (line 32)
  nestedWatcher,  \* object -> property -> <<>> (none) or <<handle>> (lines 46, 66, 71)
  accessors,      \* the <<object, property>> line 54 has made an accessor
  seq,            \* line 120
  oldVals,        \* collector _seq -> its oldVals, a list of [path, old] (line 134)
  target,         \* collector _seq -> the object its observe() call was given
  hotChangeCollectors, \* line 123: the set of _seq keys of the object
  deliverHandle,  \* line 126: "null", "handle" (of a request the scheduler has not
                  \* run yet) or "done" (of a request the scheduler has run)
  pc,             \* "idle": no drain running; "drain": inside deliverAllByTimeout
  queue,          \* the array `callbacks` of the running pass, from index i on (line 175)
  pass,           \* number of the running pass of the drain (0 outside a drain's passes)
  nsets,          \* number of assignments made so far (bounded by lim.sets)
  last,           \* history: the last assignment and every listener call it made
  calls,          \* history: observer callback invocations since the last quiet point
  recv,           \* history: collector -> first old value of every path notified since its last delivery
  hotAt,          \* history: hot collector -> pass during which it became hot (0: outside a drain)
  qhot,           \* history: hotAt as it was when the running pass took its snapshot
  removed,        \* history: collector whose subscription was removed -> was it before any assignment
  epoch,          \* history: what happened since the last quiet point
  hist,           \* history: subscriptions removed while hot, observe() calls that
                  \* threw, the last assignment an observer made to its own object
  dom,            \* the assignments <<object, property, value>> the callers make
  lim             \* how many observe(), assignment and remove() calls the callers make

vars == <<val, map, captured, nestedWatcher, accessors, seq, oldVals, target, hotChangeCollectors,
          deliverHandle, pc, queue, pass, nsets, last, calls, recv, hotAt, qhot,
          removed, epoch, hist, dom, lim>>

\* ---------------------------------------------------------------- bounds

\* observe() calls, assignments (those made by observer callbacks included)
\* and remove() calls of specification Spec
MaxObs == 2
MaxSets == 3
MaxRemoves == 1
\* observe() calls and assignments of specification SpecOrder
OrderObs == 3
OrderSets == 2
\* observe() calls and assignments of specification SpecValues
ValObs == 2
ValSets == 2
\* observe() calls and assignments of specification SpecRemove
RemObs == 2
RemSets == 2
\* observe() calls and assignments of specification SpecFair
FairObs == 2
FairSets == 2
\* observe() calls and assignments of specification SpecNested
NestedObs == 2
NestedSets == 2
\* observe() calls and assignments of specification SpecEdge
EdgeObs == 2
EdgeSets == 3

\* ---------------------------------------------------------------- values

Objs == {"o1", "o2", "x", "y", "z", "w", "e", "k", "f", "d"}

\* Object.keys(o), in creation order: o1 = {a: x, p: 1}, o2 = {p: 1},
\* x = {b: 1, c: 2}, y = {b: 1, c: 3, d: 4}, z = {c: 1}, w = {b: z}, e = {},
\* k = {valueOf: 1}, f = {p: 1, q: 1} with q defined non-configurable,
\* d = {a: w}.
Keys(o) ==
  CASE o = "o1" -> <<"a", "p">>
    [] o = "o2" -> <<"p">>
    [] o = "x"  -> <<"b", "c">>
    [] o = "y"  -> <<"b", "c", "d">>
    [] o = "z"  -> <<"c">>
    [] o = "w"  -> <<"b">>
    [] o = "k"  -> <<"valueOf">>
    [] o = "f"  -> <<"p", "q">>
    [] o = "d"  -> <<"a">>
    [] OTHER    -> <<>>

KeySet(o) == {Keys(o)[i] : i \in 1..Len(Keys(o))}

InitVal ==
  [o \in Objs |->
     CASE o = "o1" -> [a |-> "x", p |-> "1"]
       [] o = "o2" -> [p |-> "1"]
       [] o = "x"  -> [b |-> "1", c |-> "2"]
       [] o = "y"  -> [b |-> "1", c |-> "3", d |-> "4"]
       [] o = "z"  -> [c |-> "1"]
       [] o = "w"  -> [b |-> "z"]
       [] o = "k"  -> [valueOf |-> "1"]
       [] o = "f"  -> [p |-> "1", q |-> "1"]
       [] o = "d"  -> [a |-> "w"]
       [] OTHER    -> <<>>]

\* The own properties defined with configurable: false (writable, enumerable):
\* Object.defineProperty throws a TypeError on them.
NonConfigurable(o, prop) == o = "f" /\ prop = "q"

\* Names every object inherits from Object.prototype.
ObjectPrototypeKeys ==
  {"constructor", "toString", "toLocaleString", "valueOf", "hasOwnProperty",
   "isPrototypeOf", "propertyIsEnumerable", "__proto__",
   "__defineGetter__", "__defineSetter__", "__lookupGetter__", "__lookupSetter__"}

\* v && typeof v === "object": an object of the program, or Object.prototype
IsObject(v) == v \in Objs \cup {"Object.prototype"}
Falsy(v) == v \in {"undefined", "null", "NaN", "+0", "-0", "", "false"}

\* lhs === rhs
StrictEq(lhs, rhs) ==
  \/ lhs = rhs /\ lhs # "NaN"
  \/ {lhs, rhs} = {"+0", "-0"}

\* 1 / v, for the two zeros (the only values `is` divides by)
Recip(v) == IF v = "-0" THEN "-Infinity" ELSE "Infinity"

isStrictOnly(lhs, rhs) == StrictEq(lhs, rhs)

\* Object.is() polyfill
is(lhs, rhs) ==
  \/ StrictEq(lhs, rhs) /\ (~StrictEq(lhs, "+0") \/ StrictEq(Recip(lhs), Recip(rhs)))
  \/ ~StrictEq(lhs, lhs) /\ ~StrictEq(rhs, rhs)

\* The built-in functions that reading properties can reach from a plain
\* object, each written "function " and the place it is found at, and what
\* their own length is: the methods of Object.prototype,
ObjectPrototypeMethods ==
  ("valueOf" :> "+0") @@ ("toString" :> "+0") @@ ("toLocaleString" :> "+0") @@
  ("hasOwnProperty" :> "1") @@ ("isPrototypeOf" :> "1") @@
  ("propertyIsEnumerable" :> "1") @@ ("__defineGetter__" :> "2") @@
  ("__defineSetter__" :> "2") @@ ("__lookupGetter__" :> "1") @@
  ("__lookupSetter__" :> "1")

\* the methods of Function.prototype,
FunctionPrototypeMethods ==
  ("apply" :> "2") @@ ("bind" :> "1") @@ ("call" :> "1") @@ ("toString" :> "+0")

\* and the functions Object holds (those of ES2022: Object.groupBy is not
\* among them).
ObjectMethods ==
  ("assign" :> "2") @@ ("create" :> "2") @@ ("defineProperties" :> "2") @@
  ("defineProperty" :> "3") @@ ("entries" :> "1") @@ ("freeze" :> "1") @@
  ("fromEntries" :> "1") @@ ("getOwnPropertyDescriptor" :> "2") @@
  ("getOwnPropertyDescriptors" :> "1") @@ ("getOwnPropertyNames" :> "1") @@
  ("getOwnPropertySymbols" :> "1") @@ ("getPrototypeOf" :> "1") @@
  ("hasOwn" :> "2") @@ ("is" :> "2") @@
  ("isExtensible" :> "1") @@ ("isFrozen" :> "1") @@ ("isSealed" :> "1") @@
  ("keys" :> "1") @@ ("preventExtensions" :> "1") @@ ("seal" :> "1") @@
  ("setPrototypeOf" :> "2") @@ ("values" :> "1")

\* The own properties of the functions found under `place`
MethodsAt(place, methods) ==
  [f \in {"function " \o place \o m : m \in DOMAIN methods} |->
     LET m == CHOOSE m \in DOMAIN methods : f = "function " \o place \o m
     IN ("length" :> methods[m]) @@ ("name" :> m)]

\* The values place[m] of the functions found under `place`
Members(place, methods) == [m \in DOMAIN methods |-> "function " \o place \o m]

\* Built-in object or function -> its own properties, by name, each with the
\* value reading it from that object gives: null for the accessor __proto__ of
\* Object.prototype.  Reading arguments or caller of a built-in function
\* throws a TypeError, written "TypeError".
Builtins ==
  MethodsAt("Object.prototype.", ObjectPrototypeMethods) @@
  MethodsAt("Function.prototype.", FunctionPrototypeMethods) @@
  MethodsAt("Object.", ObjectMethods) @@
  ("Object.prototype" :>
     (Members("Object.prototype.", ObjectPrototypeMethods) @@
      ("constructor" :> "function Object") @@ ("__proto__" :> "null"))) @@
  ("function Function.prototype" :>
     (Members("Function.prototype.", FunctionPrototypeMethods) @@
      ("constructor" :> "function Function") @@
      ("length" :> "+0") @@ ("name" :> "") @@
      ("arguments" :> "TypeError") @@ ("caller" :> "TypeError"))) @@
  ("function Object" :>
     (Members("Object.", ObjectMethods) @@
      ("length" :> "1") @@ ("name" :> "Object") @@
      ("prototype" :> "Object.prototype"))) @@
  ("function Function" :>
     (("length" :> "1") @@ ("name" :> "Function") @@
      ("prototype" :> "function Function.prototype")))

\* typeof v === "function"
IsFunction(v) == v \in DOMAIN Builtins \ {"Object.prototype"}

\* The own properties of obj, an object of the program or a built-in
Own(v, obj) == IF obj \in DOMAIN Builtins THEN Builtins[obj] ELSE v[obj]

\* The objects obj inherits from, nearest first
Protos(obj) ==
  IF obj = "Object.prototype" THEN <<>>
  ELSE IF obj = "function Function.prototype" THEN <<"Object.prototype">>
  ELSE IF IsFunction(obj) THEN <<"function Function.prototype", "Object.prototype">>
  ELSE <<"Object.prototype">>

\* obj and the objects it inherits from that have an own property prop
Holders(v, obj, prop) == SelectSeq(<<obj>> \o Protos(obj), LAMBDA h : prop \in DOMAIN Own(v, h))

\* prop in obj, for an object of the program or a built-in: obj or an object
\* it inherits from has the property.
In(v, prop, obj) == Holders(v, obj, prop) # <<>>

\* obj[prop]: the value of the nearest object that has the property, else
\* undefined.  The accessor __proto__ of Object.prototype gives the object obj
\* inherits from, null for Object.prototype.
Get(v, obj, prop) ==
  IF Holders(v, obj, prop) = <<>> THEN "undefined"
  ELSE IF prop = "__proto__" /\ Head(Holders(v, obj, prop)) = "Object.prototype"
  THEN IF Protos(obj) = <<>> THEN "null" ELSE Head(Protos(obj))
  ELSE Own(v, Head(Holders(v, obj, prop)))[prop]

\* ---------------------------------------------------------------- listeners

\* A raw listener is a function (prop, oldVal, newVal).  Two kinds exist: the
\* bound onChange of collector c (line 186), written with an empty chain, and
\* the re-pathing closures of lines 48-50 and 71-73, each of which prefixes its
\* own property and calls the `callback` its watchPojo call was given.  A
\* closure is written as the collector its calls end in and the chain of
\* <<object, property>> closures in front of it, outermost first.
Collector(c) == [c |-> c, chain |-> <<>>]
Repath(pojo, prop, callback) ==
  [c |-> callback.c, chain |-> Append(callback.chain, <<pojo, prop>>)]

\* The object watchPojo returns: remove() closes over `callbacks` and `callback`.
Handle(pojo, callback) == [pojo |-> pojo, callback |-> callback]

\* Array.prototype.indexOf; 0 stands for -1
indexOf(arr, item) ==
  IF \E i \in 1..Len(arr) : arr[i] = item
  THEN CHOOSE i \in 1..Len(arr) : arr[i] = item /\ \A j \in 1..(i - 1) : arr[j] # item
  ELSE 0

\* splice as it would be without its second argument: callbacks.splice(idx)
spliceFrom(arr, idx) == SubSeq(arr, 1, idx - 1)

\* callbacks.splice(idx, 1)
splice(arr, idx) == SubSeq(arr, 1, idx - 1) \o SubSeq(arr, idx + 1, Len(arr))

\* handle.remove()
remove(st, handle) ==
  LET idx == indexOf(st.map[handle.pojo], handle.callback)
  IN IF idx >= 1 THEN [st EXCEPT !.map[handle.pojo] = splice(@, idx)] ELSE st

\* ---------------------------------------------------------------- ChangeCollector

Has(m, path) == \E i \in 1..Len(m) : m[i].path = path

\* prop in this.oldVals: own keys and the keys inherited from Object.prototype
InOldVals(m, path) == Has(m, path) \/ path \in ObjectPrototypeKeys

\* schedule(deliverAllByTimeout) of ./schedule: the callback is queued to run
\* once the running synchronous code is over, and a handle is returned.
schedule(st) == [st EXCEPT !.deliverHandle = "handle", !.sched = TRUE]

\* deliver as it would be if it passed this.oldVals on without replacing it
deliverNoSwap(st, c) ==
  [st EXCEPT !.recv[c] = <<>>,
             !.calls = Append(@, [c |-> c, oldVals |-> st.oldVals[c], recv |-> st.recv[c],
                                  pass |-> st.pass, stack |-> st.stack,
                                  hotPass |-> IF c \in DOMAIN st.qhot THEN st.qhot[c]
                                              ELSE st.pass])]

\* ChangeCollector.deliver: swap the map out, call the observer with it.
deliver(st, c) ==
  [st EXCEPT !.oldVals[c] = <<>>,
             !.recv[c] = <<>>,
             !.calls = Append(@, [c |-> c, oldVals |-> st.oldVals[c], recv |-> st.recv[c],
                                  pass |-> st.pass, stack |-> st.stack,
                                  hotPass |-> IF c \in DOMAIN st.qhot THEN st.qhot[c]
                                              ELSE st.pass])]

\* onChange as it would be if it delivered at once instead of scheduling
onChangeSync(st, c, prop, oldVal) ==
  LET entry == [path |-> prop, old |-> oldVal]
      g  == [st EXCEPT !.recv[c] = IF Has(@, prop) THEN @ ELSE Append(@, entry)]
      s1 == IF ~InOldVals(g.oldVals[c], prop)
            THEN [g EXCEPT !.oldVals[c] = Append(@, entry)]
            ELSE g
  IN deliver(s1, c)

\* ChangeCollector.onChange(prop, oldVal)
onChange(st, c, prop, oldVal) ==
  LET entry == [path |-> prop, old |-> oldVal]
      g  == [st EXCEPT !.recv[c] = IF Has(@, prop) THEN @ ELSE Append(@, entry)]
      s1 == IF ~InOldVals(g.oldVals[c], prop)
            THEN [g EXCEPT !.oldVals[c] = Append(@, entry),
                           !.hotChangeCollectors = @ \cup {c},
                           !.hotAt = (c :> g.pass) @@ @]
            ELSE g
  IN IF s1.deliverHandle = "null" THEN schedule(s1) ELSE s1

\* ---------------------------------------------------------------- watchPojo

RECURSIVE invoke(_, _, _, _, _)
\* Call one raw listener.
invoke(st, listener, prop, oldVal, newVal) ==
  IF listener.chain = <<>>
  THEN onChange([st EXCEPT !.notes = Append(@, [c |-> listener.c, path |-> prop,
                                                 old |-> oldVal, new |-> newVal])],
                listener.c, prop, oldVal)
  ELSE LET n == Len(listener.chain)
       IN invoke(st, [listener EXCEPT !.chain = SubSeq(@, 1, n - 1)],
                 listener.chain[n][2] \o "." \o prop, oldVal, newVal)

RECURSIVE notifyFrom(_, _, _, _, _, _)
notifyFrom(st, callbacks, i, prop, oldVal, newVal) ==
  IF i > Len(callbacks) THEN st
  ELSE notifyFrom(invoke(st, callbacks[i], prop, oldVal, newVal),
                  callbacks, i + 1, prop, oldVal, newVal)

\* notify() of the setter of pojo: callbacks.forEach(watcher => watcher(...))
notify(st, pojo, prop, oldVal, newVal) ==
  notifyFrom(st, st.map[pojo], 1, prop, oldVal, newVal)

RECURSIVE diff(_, _, _, _, _), diffFrom(_, _, _, _, _, _)
\* The for-in loop of diff, from the i-th key of newObj on.  `prop in oldObj`
\* throws a TypeError when oldObj is a primitive that is not falsy; it does not
\* when oldObj is an object or a function.  Reading oldObj[prop] throws for the
\* arguments and caller of a built-in function.
diffFrom(st, oldObj, newObj, pojo, prefix, i) ==
  IF st.threw \/ i > Len(Keys(newObj)) THEN st
  ELSE IF ~Falsy(oldObj) /\ ~IsObject(oldObj) /\ ~IsFunction(oldObj)
  THEN [st EXCEPT !.threw = TRUE]
  ELSE IF /\ ~Falsy(oldObj) /\ In(st.val, Keys(newObj)[i], oldObj)
          /\ Get(st.val, oldObj, Keys(newObj)[i]) = "TypeError"
  THEN [st EXCEPT !.threw = TRUE]
  ELSE LET prop == Keys(newObj)[i]
           newV == Get(st.val, newObj, prop)
           changed == \/ Falsy(oldObj)
                      \/ ~In(st.val, prop, oldObj)
                      \/ ~is(Get(st.val, oldObj, prop), newV)
           st1 == IF ~changed THEN st
                  ELSE IF IsObject(newV)
                  THEN diff(st, IF Falsy(oldObj) THEN oldObj ELSE Get(st.val, oldObj, prop),
                            newV, pojo, prefix \o prop \o ".")
                  ELSE notify(st, pojo, prefix \o prop,
                              IF Falsy(oldObj) THEN "undefined" ELSE Get(st.val, oldObj, prop),
                              newV)
       IN diffFrom(st1, oldObj, newObj, pojo, prefix, i + 1)

\* diff(oldObj, newObj, notify, prefix), notify being the one of pojo's setter
diff(st, oldObj, newObj, pojo, prefix) == diffFrom(st, oldObj, newObj, pojo, prefix, 1)

RECURSIVE watchPojo(_, _, _), watchProps(_, _, _, _)
\* Object.keys(pojo).forEach(...) of watchPojo, from the i-th key on: the
\* nested watch of an object value, then defineProperty, which makes the
\* property an accessor or throws; an exception ends the loop.
watchProps(st, pojo, callback, i) ==
  IF st.threw \/ i > Len(Keys(pojo)) THEN st
  ELSE LET prop == Keys(pojo)[i]
           curVal == st.val[pojo][prop]
           made == IF NonConfigurable(pojo, prop) THEN {} ELSE {<<pojo, prop>>}
           st1 == IF IsObject(curVal)
                  THEN LET w == watchPojo(st, curVal, Repath(pojo, prop, callback))
                       IN IF w.threw THEN w
                          ELSE [w EXCEPT !.nestedWatcher[pojo][prop] =
                                           <<Handle(curVal, Repath(pojo, prop, callback))>>,
                                         !.accessors = @ \cup made,
                                         !.threw = NonConfigurable(pojo, prop)]
                  ELSE [st EXCEPT !.accessors = @ \cup made,
                                  !.threw = NonConfigurable(pojo, prop)]
       IN watchProps(st1, pojo, callback, i + 1)

\* watchPojo(pojo, callback); the handle it returns is Handle(pojo, callback)
watchPojo(st, pojo, callback) ==
  LET st1 == IF pojo \in DOMAIN st.map THEN st
             ELSE watchProps([st EXCEPT !.map = (pojo :> <<>>) @@ @,
                                        !.captured = (pojo :> callback) @@ @],
                             pojo, callback, 1)
  IN IF st1.threw THEN st1 ELSE [st1 EXCEPT !.map[pojo] = Append(@, callback)]

\* The setter defineProperty installs on pojo[prop]
setter(st, pojo, prop, newVal) ==
  LET curVal == st.val[pojo][prop]
      callback == st.captured[pojo]
      st1 == IF st.nestedWatcher[pojo][prop] # <<>>
             THEN [remove(st, st.nestedWatcher[pojo][prop][1])
                     EXCEPT !.nestedWatcher[pojo][prop] = <<>>]
             ELSE st
      st2 == IF IsObject(newVal)
             THEN LET w == watchPojo(st1, newVal, Repath(pojo, prop, callback))
                  IN IF w.threw THEN w
                     ELSE [w EXCEPT !.nestedWatcher[pojo][prop] =
                                      <<Handle(newVal, Repath(pojo, prop, callback))>>]
             ELSE st1
      st3 == [st2 EXCEPT !.val[pojo][prop] = newVal]
  IN IF is(newVal, curVal) THEN st
     ELSE IF st2.threw THEN st2
     ELSE IF IsObject(newVal) THEN diff(st3, curVal, newVal, pojo, prop \o ".")
     ELSE notify(st3, pojo, prop, curVal, newVal)

\* pojo[prop] is an accessor: the forEach of line 41 reached it, neither the
\* nested watchPojo of line 48 nor line 54 threw, and line 54 made it one
Intercepted(st, pojo, prop) == <<pojo, prop>> \in st.accessors

\* pojo[prop] = newVal: through the setter when the property is an accessor
assign(st, pojo, prop, newVal) ==
  IF Intercepted(st, pojo, prop)
  THEN [setter([st EXCEPT !.stack = Append(@, "set")], pojo, prop, newVal)
          EXCEPT !.stack = st.stack]
  ELSE [st EXCEPT !.val[pojo][prop] = newVal]

\* observePojo(pojo, callback): the collector takes the next _seq
observePojo(st, pojo) ==
  LET c == st.seq
      st1 == [st EXCEPT !.seq = @ + 1,
                        !.oldVals = (c :> <<>>) @@ @,
                        !.recv = (c :> <<>>) @@ @,
                        !.target = (c :> pojo) @@ @]
  IN watchPojo(st1, pojo, Collector(c))

\* ---------------------------------------------------------------- deliverAllByTimeout

\* the comparator with its operands swapped
compareReversed(lhs, rhs) == rhs - lhs

\* The comparator of line 172
compare(lhs, rhs) == lhs - rhs

RECURSIVE insert(_, _), sort(_)
insert(sorted, item) ==
  IF sorted = <<>> THEN <<item>>
  ELSE IF compare(item, Head(sorted)) < 0 THEN <<item>> \o sorted
  ELSE <<Head(sorted)>> \o insert(Tail(sorted), item)

\* callbacks.sort(function (lhs, rhs) { return lhs._seq - rhs._seq; })
sort(arr) ==
  IF arr = <<>> THEN <<>>
  ELSE insert(sort(SubSeq(arr, 1, Len(arr) - 1)), arr[Len(arr)])

\* The orders in which `for (var s in hotChangeCollectors)` may enumerate the
\* keys: ascending in engines that follow ES2015 key order, unspecified before.
ForIn(hot) ==
  {order \in [1..Cardinality(hot) -> hot] :
     \A i, j \in 1..Cardinality(hot) : i # j => order[i] # order[j]}

\* ---------------------------------------------------------------- the state as one record

Cur ==
  [val |-> val, map |-> map, captured |-> captured, nestedWatcher |-> nestedWatcher,
   accessors |-> accessors,
   seq |-> seq, oldVals |-> oldVals, target |-> target,
   hotChangeCollectors |-> hotChangeCollectors, deliverHandle |-> deliverHandle,
   pass |-> pass, calls |-> calls, recv |-> recv, hotAt |-> hotAt, qhot |-> qhot,
   notes |-> <<>>, threw |-> FALSE, sched |-> FALSE, stack |-> <<>>]

InstallHeap(st) ==
  /\ val' = st.val
  /\ map' = st.map
  /\ captured' = st.captured
  /\ nestedWatcher' = st.nestedWatcher
  /\ accessors' = st.accessors
  /\ seq' = st.seq
  /\ oldVals' = st.oldVals
  /\ target' = st.target
  /\ hotChangeCollectors' = st.hotChangeCollectors
  /\ calls' = st.calls
  /\ recv' = st.recv
  /\ hotAt' = st.hotAt

Install(st) == InstallHeap(st) /\ deliverHandle' = st.deliverHandle

\* ---------------------------------------------------------------- history

\* Nothing is pending and no drain runs.
Quiet == pc = "idle" /\ deliverHandle = "null"

NoSet ==
  [o |-> "none", p |-> "", old |-> "undefined", new |-> "undefined", ctx |-> "idle",
   notes |-> <<>>, threw |-> FALSE, sched |-> FALSE, expect |-> {}, watched |-> FALSE,
   pristine |-> FALSE, leaves |-> {}]

\* sets: assignments made; cascade: one of them by an observer callback;
\* notes: raw listener calls into collectors; hotOrder: the collectors in the
\* order in which they first took a change; first: the assignment, while it is
\* the only one.
NoEpoch == [sets |-> 0, cascade |-> FALSE, notes |-> 0, hotOrder |-> <<>>, first |-> NoSet]

RECURSIVE PathsTo(_, _, _)
\* The dotted prefixes ("" or "a." or "a.b." ...) under which object o is
\* reached from object r in heap v.
PathsTo(v, r, o) ==
  IF r = o THEN {""}
  ELSE UNION {{k \o "." \o s : s \in PathsTo(v, v[r][k], o)} :
                k \in {k \in DOMAIN v[r] : IsObject(v[r][k])}}

\* The observers whose subscription is held.
Held == DOMAIN target \ DOMAIN removed

\* No property that held an object when the program started, or holds one
\* now, has changed: every nested object is where it was at watch time.
Pristine ==
  \A o \in Objs : \A p \in KeySet(o) :
     (IsObject(InitVal[o][p]) \/ IsObject(val[o][p])) => val[o][p] = InitVal[o][p]

RECURSIVE LeafChanges(_, _, _, _)
\* What replacing object oldObj by object newObj changes, as the specification
\* words it: every leaf of newObj whose value is not the same value as the leaf
\* of oldObj at the same place, or that oldObj lacks, with the old leaf value
\* ("undefined" for a leaf oldObj lacks).  oldV is "none" where oldObj has nothing.
LeafChanges(v, oldV, newObj, prefix) ==
  UNION {LET nv == v[newObj][k]
             has == oldV \in Objs /\ k \in DOMAIN v[oldV]
             ov == IF has THEN v[oldV][k] ELSE "none"
         IN IF IsObject(nv)
            THEN IF nv = ov THEN {} ELSE LeafChanges(v, ov, nv, prefix \o k \o ".")
            ELSE IF has /\ nv = ov THEN {}
            ELSE {[path |-> prefix \o k, old |-> IF has THEN ov ELSE "undefined"]}
         : k \in DOMAIN v[newObj]}

\* The observers whose subscription is held and the path under which each of
\* them sees property p of object o.
Expect(o, p) ==
  UNION {{[c |-> c, pre |-> pre, path |-> pre \o p] : pre \in PathsTo(val, target[c], o)} :
           c \in Held}

\* The record of the assignment o[p] = v that led from the current state to st.
SetRecord(st, o, p, v, ctx) ==
  [o |-> o, p |-> p, old |-> val[o][p], new |-> v, ctx |-> ctx, notes |-> st.notes,
   threw |-> st.threw, sched |-> st.sched, expect |-> Expect(o, p),
   watched |-> o \in DOMAIN map, pristine |-> Pristine,
   leaves |-> IF IsObject(v) /\ IsObject(val[o][p]) /\ v # val[o][p]
              THEN LeafChanges(val, val[o][p], v, p \o ".") ELSE {}]

RECURSIVE FirstSeen(_, _)
\* order, then the collectors of notes that are not in it yet
FirstSeen(order, notes) ==
  IF notes = <<>> THEN order
  ELSE FirstSeen(IF \E i \in 1..Len(order) : order[i] = Head(notes).c THEN order
                 ELSE Append(order, Head(notes).c),
                 Tail(notes))

EpochAfter(ep, rec) ==
  [sets |-> ep.sets + 1,
   cascade |-> ep.cascade \/ rec.ctx = "drain",
   notes |-> ep.notes + Len(rec.notes),
   hotOrder |-> FirstSeen(ep.hotOrder, rec.notes),
   first |-> IF ep.sets = 0 THEN rec ELSE NoSet]

NoReent == [c |-> -1, path |-> "", old |-> "undefined", pass |-> 0]

\* cancelled: collector whose subscription was removed while it was hot -> the
\* map it held then; failed: the collectors whose observe() call threw; reent:
\* the last assignment of a differing primitive an observer callback made to
\* an intercepted property of the object it observes (collector, property,
\* value before, pass).  cancelled and reent start afresh at a quiet point.
NoHist == [cancelled |-> <<>>, failed |-> {}, reent |-> NoReent]

HistNow == IF Quiet THEN [hist EXCEPT !.cancelled = <<>>, !.reent = NoReent] ELSE hist

\* hist after the callback of collector c has assigned o[p] = v
HistReent(c, o, p, v) ==
  IF /\ c \in Held /\ target[c] = o
     /\ Intercepted(Cur, o, p)
     /\ ~IsObject(v) /\ ~is(v, val[o][p])
  THEN [hist EXCEPT !.reent = [c |-> c, path |-> p, old |-> val[o][p], pass |-> pass]]
  ELSE hist

\* ---------------------------------------------------------------- actions

Roots == {"o1", "o2"}

\* observe(o, callback) on a plain object
Observe(o) ==
  /\ pc = "idle"
  /\ seq < lim.obs
  /\ LET st == observePojo([Cur EXCEPT !.calls = IF Quiet THEN <<>> ELSE @], o)
     IN /\ Install(st)
        /\ hist' = [HistNow EXCEPT !.failed = IF st.threw THEN @ \cup {seq} ELSE @]
  /\ epoch' = IF Quiet THEN NoEpoch ELSE epoch
  /\ last' = NoSet
  /\ UNCHANGED <<pc, queue, pass, nsets, qhot, removed, dom, lim>>

\* remove() of the handle observe() returned for collector c
Remove(c) ==
  /\ pc = "idle"
  /\ c \in DOMAIN target
  /\ Cardinality(DOMAIN removed \cup {c}) <= lim.rem
  /\ Install(remove([Cur EXCEPT !.calls = IF Quiet THEN <<>> ELSE @],
                    Handle(target[c], Collector(c))))
  /\ removed' = IF c \in DOMAIN removed THEN removed ELSE (c :> (nsets = 0)) @@ removed
  /\ hist' = IF c \in hotChangeCollectors /\ c \notin DOMAIN removed
             THEN [HistNow EXCEPT !.cancelled = (c :> oldVals[c]) @@ @]
             ELSE HistNow
  /\ epoch' = IF Quiet THEN NoEpoch ELSE epoch
  /\ last' = NoSet
  /\ UNCHANGED <<pc, queue, pass, nsets, qhot, dom, lim>>

\* o[p] = v, in the synchronous code of a task
Set(o, p, v) ==
  /\ pc = "idle"
  /\ nsets < lim.sets
  /\ LET st == assign([Cur EXCEPT !.calls = IF Quiet THEN <<>> ELSE @], o, p, v)
         ep == IF Quiet THEN NoEpoch ELSE epoch
     IN /\ Install(st)
        /\ last' = SetRecord(st, o, p, v, "idle")
        /\ epoch' = EpochAfter(ep, last')
  /\ hist' = HistNow
  /\ nsets' = nsets + 1
  /\ UNCHANGED <<pc, queue, pass, qhot, removed, dom, lim>>

\* deliverAllByTimeout without its outer loop: one pass, then line 180
SnapshotOnce(order) ==
  LET callbacks == IF pc = "drain" THEN <<>> ELSE sort(order)
  IN /\ hotChangeCollectors' = IF pc = "drain" THEN hotChangeCollectors ELSE {}
     /\ queue' = callbacks
     /\ qhot' = hotAt
     /\ hotAt' = <<>>
     /\ IF callbacks = <<>>
        THEN deliverHandle' = "null" /\ pc' = "idle" /\ pass' = 0
        ELSE deliverHandle' = deliverHandle /\ pc' = "drain" /\ pass' = pass + 1
     /\ last' = NoSet
     /\ UNCHANGED <<val, map, captured, nestedWatcher, accessors, seq, oldVals, target,
                    nsets, calls, recv, removed, epoch, hist, dom, lim>>

\* deliverAllByTimeout without its line 180
SnapshotKeepHandle(order) ==
  LET callbacks == sort(order)
  IN /\ hotChangeCollectors' = {}
     /\ queue' = callbacks
     /\ qhot' = hotAt
     /\ hotAt' = <<>>
     /\ deliverHandle' = deliverHandle
     /\ IF callbacks = <<>>
        THEN pc' = "idle" /\ pass' = 0
        ELSE pc' = "drain" /\ pass' = pass + 1
     /\ last' = NoSet
     /\ UNCHANGED <<val, map, captured, nestedWatcher, accessors, seq, oldVals, target,
                    nsets, calls, recv, removed, epoch, hist, dom, lim>>

\* One iteration of the outer loop of deliverAllByTimeout up to its inner loop:
\* the snapshot, the reset of hotChangeCollectors and the sort.  With an empty
\* snapshot the inner loop does nothing, the outer loop ends and line 180 runs.
Snapshot(order) ==
  LET callbacks == sort(order)
  IN /\ hotChangeCollectors' = {}
     /\ queue' = callbacks
     /\ qhot' = hotAt
     /\ hotAt' = <<>>
     /\ IF callbacks = <<>>
        THEN deliverHandle' = "null" /\ pc' = "idle" /\ pass' = 0
        ELSE deliverHandle' = deliverHandle /\ pc' = "drain" /\ pass' = pass + 1
     /\ last' = NoSet
     /\ UNCHANGED <<val, map, captured, nestedWatcher, accessors, seq, oldVals, target,
                    nsets, calls, recv, removed, epoch, hist, dom, lim>>

\* The scheduler runs deliverAllByTimeout: the synchronous burst is over.
DeliverAllByTimeout ==
  /\ pc = "idle"
  /\ deliverHandle = "handle"
  /\ \E order \in ForIn(hotChangeCollectors) : Snapshot(order)

\* The inner loop is through: anyWorkDone is true, the outer loop goes round.
NextPass ==
  /\ pc = "drain"
  /\ queue = <<>>
  /\ \E order \in ForIn(hotChangeCollectors) : Snapshot(order)

\* callbacks[i].deliver(): the observer's callback runs; it makes no
\* assignment (quiet = TRUE) or assigns o[p] = v to an object of the program.
\* When the assignment throws, the callback either catches the exception, and
\* the loop goes on, or lets it out: the exception leaves deliverAllByTimeout,
\* the rest of the snapshot is dropped and line 180 is not reached.
DeliverNext(quiet, o, p, v) ==
  /\ pc = "drain"
  /\ queue # <<>>
  /\ LET st1 == deliver([Cur EXCEPT !.stack = <<"deliverAllByTimeout">>], Head(queue))
     IN IF quiet
        THEN /\ Install(st1)
             /\ last' = NoSet
             /\ queue' = Tail(queue)
             /\ UNCHANGED <<pc, pass, nsets, epoch, hist>>
        ELSE /\ nsets < lim.sets
             /\ LET st2 == assign([st1 EXCEPT !.stack = Append(@, "callback")], o, p, v)
                IN /\ InstallHeap(st2)
                   /\ last' = SetRecord(st2, o, p, v, "drain")
                   /\ epoch' = EpochAfter(epoch, last')
                   /\ \E catches \in IF last'.threw THEN BOOLEAN ELSE {TRUE} :
                        IF catches
                        THEN /\ deliverHandle' = st2.deliverHandle
                             /\ queue' = Tail(queue)
                             /\ UNCHANGED <<pc, pass>>
                        ELSE /\ deliverHandle' = "done"
                             /\ queue' = <<>>
                             /\ pc' = "idle"
                             /\ pass' = 0
             /\ hist' = HistReent(Head(queue), o, p, v)
             /\ nsets' = nsets + 1
  /\ UNCHANGED <<qhot, removed, dom, lim>>

Next ==
  \/ \E o \in Roots : Observe(o)
  \/ \E c \in DOMAIN target : Remove(c)
  \/ \E a \in dom : Set(a[1], a[2], a[3])
  \/ DeliverAllByTimeout
  \/ NextPass
  \/ DeliverNext(TRUE, "none", "", "undefined")
  \/ \E a \in dom : DeliverNext(FALSE, a[1], a[2], a[3])

InitState ==
  /\ val = InitVal
  /\ map = <<>>
  /\ captured = <<>>
  /\ nestedWatcher = [o \in Objs |-> [p \in KeySet(o) |-> <<>>]]
  /\ accessors = {}
  /\ seq = 0
  /\ oldVals = <<>>
  /\ target = <<>>
  /\ hotChangeCollectors = {}
  /\ deliverHandle = "null"
  /\ pc = "idle"
  /\ queue = <<>>
  /\ pass = 0
  /\ nsets = 0
  /\ last = NoSet
  /\ calls = <<>>
  /\ recv = <<>>
  /\ hotAt = <<>>
  /\ qhot = <<>>
  /\ removed = <<>>
  /\ epoch = NoEpoch
  /\ hist = NoHist

\* The assignments of the main specification.
DomMain ==
  {<<"o1", "p", "2">>, <<"o1", "p", "3">>, <<"o2", "p", "2">>, <<"x", "b", "2">>}

Init ==
  InitState /\ dom = DomMain /\ lim = [obs |-> MaxObs, sets |-> MaxSets, rem |-> MaxRemoves]

Spec == Init /\ [][Next]_vars

\* The steps of a running deliverAllByTimeout that returns
DrainStep == NextPass \/ DeliverNext(TRUE, "none", "", "undefined")

\* The assignments of specification SpecFair: two objects and a nested one
DomFair == {<<"o1", "p", "2">>, <<"o2", "p", "2">>, <<"x", "b", "2">>}

\* The specification where a running deliverAllByTimeout goes on: it is
\* synchronous code, nothing else runs until it returns.
InitFair ==
  InitState /\ dom = DomFair /\ lim = [obs |-> FairObs, sets |-> FairSets, rem |-> MaxRemoves]

SpecFair == InitFair /\ [][Next]_vars /\ WF_vars(DrainStep)

\* The assignments and the calls of specification SpecRemove: two observers,
\* an object and the object nested in it.
DomRemove == {<<"o1", "p", "2">>, <<"x", "b", "2">>}

InitRemove ==
  InitState /\ dom = DomRemove /\ lim = [obs |-> RemObs, sets |-> RemSets, rem |-> MaxRemoves]

SpecRemove == InitRemove /\ [][Next]_vars

\* The assignments and the calls of specification SpecOrder: three observers
\* on two objects.
DomOrder == {<<"o1", "p", "2">>, <<"o2", "p", "2">>}

InitOrder ==
  InitState /\ dom = DomOrder /\ lim = [obs |-> OrderObs, sets |-> OrderSets, rem |-> MaxRemoves]

SpecOrder == InitOrder /\ [][Next]_vars

\* The assignments of specification SpecValues: objects and primitives over
\* objects and primitives, NaN and the two zeros.
DomValues ==
  {<<"o1", "a", "y">>, <<"o1", "a", "w">>, <<"o1", "a", "1">>,
   <<"o2", "p", "NaN">>, <<"o2", "p", "+0">>, <<"o2", "p", "-0">>}

InitValues ==
  InitState /\ dom = DomValues /\ lim = [obs |-> ValObs, sets |-> ValSets, rem |-> MaxRemoves]

SpecValues == InitValues /\ [][Next]_vars

\* The assignments of specification SpecNested: the object o1.a holds is
\* replaced by another object or by a primitive, the old and the new object
\* are changed; the object d.a holds, which nests another one, is replaced by
\* a primitive, the nested object is changed.
DomNested ==
  {<<"o1", "a", "y">>, <<"o1", "a", "1">>, <<"x", "b", "2">>, <<"y", "b", "2">>,
   <<"d", "a", "1">>, <<"z", "c", "2">>}

NestedRoots == {"d"}

NextNested ==
  \/ Next
  \/ \E o \in NestedRoots : Observe(o)

InitNested ==
  InitState /\ dom = DomNested
            /\ lim = [obs |-> NestedObs, sets |-> NestedSets, rem |-> MaxRemoves]

SpecNested == InitNested /\ [][NextNested]_vars

\* callbacks[i].deliver() where the observer's callback throws: the exception
\* leaves deliverAllByTimeout, the rest of the snapshot is dropped and line 180
\* is not reached.
ThrowNext ==
  /\ pc = "drain"
  /\ queue # <<>>
  /\ Install([deliver([Cur EXCEPT !.stack = <<"deliverAllByTimeout">>], Head(queue))
                EXCEPT !.deliverHandle = "done"])
  /\ pc' = "idle"
  /\ queue' = <<>>
  /\ pass' = 0
  /\ last' = NoSet
  /\ UNCHANGED <<nsets, qhot, removed, epoch, hist, dom, lim>>

\* The objects of specification SpecEdge: one with a property named like a
\* member of Object.prototype, one with a non-configurable property.
EdgeRoots == {"k", "f"}

NextEdge ==
  \/ Next
  \/ \E o \in EdgeRoots : Observe(o)
  \/ ThrowNext

DomEdge ==
  {<<"o2", "p", "2">>, <<"k", "valueOf", "2">>, <<"f", "p", "2">>, <<"f", "q", "2">>}

InitEdge ==
  InitState /\ dom = DomEdge /\ lim = [obs |-> EdgeObs, sets |-> EdgeSets, rem |-> MaxRemoves]

\* The scheduler runs every callback it was asked to run, and the loop of a
\* running deliverAllByTimeout goes on.
SpecEdge ==
  InitEdge /\ [][NextEdge]_vars /\ WF_vars(DeliverAllByTimeout) /\ WF_vars(DrainStep)

\* ---------------------------------------------------------------- claims

Range(s) == {s[i] : i \in 1..Len(s)}
CallsOf(c) == {i \in 1..Len(calls) : calls[i].c = c}

\* C1: batching with first-write-wins.  Every map an observer is called with
\* holds exactly the paths its collector was notified of since its last
\* delivery, each with the old value of the first notification of that path;
\* and once the drain that follows a burst of assignments is over, every
\* observer notified in the burst has been called exactly once and no other
\* observer has been called.
C1_BatchFirstWriteWins ==
  /\ \A i \in 1..Len(calls) : calls[i].oldVals = calls[i].recv
  /\ (Quiet /\ ~epoch.cascade) =>
       /\ \A c \in Range(epoch.hotOrder) : Cardinality(CallsOf(c)) = 1
       /\ \A i \in 1..Len(calls) : calls[i].c \in Range(epoch.hotOrder)

\* C2: registration-order delivery.  The observers delivered in the first pass
\* of a drain, those that became hot in the burst before it, are called in the
\* order of their observe() calls.
C2_RegistrationOrder ==
  \A i, j \in 1..Len(calls) :
     (i < j /\ calls[i].pass = 1 /\ calls[j].pass = 1) => calls[i].c < calls[j].c

\* Three observers delivered in one pass, the second one having become hot first.
C2_Witness ==
  /\ Len(calls) = 3
  /\ \A i \in 1..3 : calls[i].pass = 1 /\ calls[i].c = i - 1
  /\ epoch.hotOrder = <<1, 0, 2>>

\* C9: cascades drain in the same session, pass by pass.  A collector is
\* delivered in the pass after the one during which it became hot (the burst
\* counting as pass 0), whatever its sequence number; the passes follow one
\* another and each delivers in ascending sequence number; an assignment made
\* by an observer callback requests no schedule; and when the drain is over no
\* collector is left hot.
C9_CascadePasses ==
  /\ \A i \in 1..Len(calls) : calls[i].pass = calls[i].hotPass + 1
  /\ \A i, j \in 1..Len(calls) :
       i < j => \/ calls[i].pass < calls[j].pass
                \/ calls[i].pass = calls[j].pass /\ calls[i].c < calls[j].c
  /\ last.ctx = "drain" => ~last.sched
  /\ Quiet => hotChangeCollectors = {}

\* A drain is over in which the second pass delivered an observer registered
\* before the one the first pass delivered.
C9_Witness ==
  /\ Quiet
  /\ \E i, j \in 1..Len(calls) :
       /\ calls[i].pass = 1 /\ calls[j].pass = 2
       /\ calls[j].c < calls[i].c
       /\ calls[j].oldVals # <<>>

\* C10: delivery is always deferred.  An observer callback is called by
\* deliverAllByTimeout alone: never below a setter, never below another
\* observer callback.
C10_DeliveryDeferred ==
  \A i \in 1..Len(calls) : calls[i].stack = <<"deliverAllByTimeout">>

\* An assignment made by an observer callback has been delivered, one pass later.
C10_Witness ==
  /\ epoch.cascade
  /\ \E i \in 1..Len(calls) : calls[i].pass = 2 /\ calls[i].oldVals # <<>>

\* C3: unsubscribe is final.  An observer whose subscription was removed
\* before any assignment is never called.
C3_UnsubscribeIsFinal ==
  \A i \in 1..Len(calls) :
     ~(calls[i].c \in DOMAIN removed /\ removed[calls[i].c])

\* The raw listener calls the last assignment made to collector c
NotesOf(c) ==
  LET mine == SelectSeq(last.notes, LAMBDA n : n.c = c)
  IN [i \in 1..Len(mine) |-> [path |-> mine[i].path, old |-> mine[i].old, new |-> mine[i].new]]

\* C4: every observer sees every change.  The observers subscribed to the same
\* object are passed the same notifications by every assignment, and each
\* notification goes to them in the order of their registration.
C4_EveryObserverNotified ==
  /\ \A c1, c2 \in Held : target[c1] = target[c2] => NotesOf(c1) = NotesOf(c2)
  /\ \A i, j \in 1..Len(last.notes) :
       (i < j /\ last.notes[i].path = last.notes[j].path) => last.notes[i].c < last.notes[j].c

\* The one assignment made since the last quiet point, once its drain is over
OnlySet == IF Quiet /\ epoch.sets = 1 THEN epoch.first ELSE NoSet

\* C7: a nested assignment is reported under its dotted path.  After the
\* drain that follows one assignment of a differing value to a property of an
\* object nested, since watch time, in an observed object, every observer of
\* that object has been called with a map that holds the dotted path with the
\* value the property had before.
C7_NestedPath ==
  (OnlySet.watched /\ OnlySet.pristine /\ OnlySet.new # OnlySet.old) =>
     \A e \in OnlySet.expect :
        e.pre # "" =>
           \E i \in CallsOf(e.c) :
              [path |-> e.path, old |-> OnlySet.old] \in Range(calls[i].oldVals)

\* C5: single differing assignment.  After the drain that follows one
\* assignment, one that returns, of a value that differs from the current one
\* (a primitive or an object) to a property p of an observed object that was
\* intercepted at watch time, each observer of the object (one whose observe()
\* call returned) has been called exactly once, with a map that holds p with
\* the value it had before.
C5_SingleAssignment ==
  (/\ OnlySet.watched /\ <<OnlySet.o, OnlySet.p>> \in accessors
   /\ OnlySet.new # OnlySet.old /\ ~OnlySet.threw) =>
     \A e \in OnlySet.expect :
        (e.pre = "" /\ e.c \notin hist.failed) =>
           /\ Cardinality(CallsOf(e.c)) = 1
           /\ \A i \in CallsOf(e.c) :
                [path |-> OnlySet.p, old |-> OnlySet.old] \in Range(calls[i].oldVals)

\* A step that assigns to an intercepted property the value it holds
SameValueSet ==
  /\ last'.o # "none" /\ last'.watched
  /\ last'.new = last'.old

\* C6: a same-value assignment is a no-op, and the two zeros differ.  Assigning
\* to an intercepted property the value it holds (NaN over NaN included) calls
\* no raw listener, makes no collector hot, requests no schedule and leaves the
\* shadow value and the nested watch as they are; assigning one zero over the
\* other notifies every observer of the object.
C6_SameValueNoOp ==
  /\ [][SameValueSet =>
          /\ UNCHANGED <<val, map, captured, nestedWatcher, accessors, hotChangeCollectors,
                         deliverHandle>>
          /\ last'.ctx = "idle" => UNCHANGED <<oldVals, recv>>
          /\ last'.notes = <<>>
          /\ ~last'.sched]_vars
  /\ []((last.watched /\ {last.old, last.new} = {"+0", "-0"}) =>
          \A e \in last.expect :
             \E i \in 1..Len(last.notes) :
                last.notes[i] = [c |-> e.c, path |-> e.path, old |-> last.old, new |-> last.new])

\* NaN was assigned over NaN on an object that has an observer.
C6_Witness ==
  /\ last.watched /\ last.old = "NaN" /\ last.new = "NaN"
  /\ last.expect # {}

\* C8: wholesale replacement is diffed leaf by leaf.  After the drain that
\* follows the assignment of a different object to a property that held an
\* object, each observer has been called with exactly the changed and the added
\* leaves of the new object, each with its old leaf value, or has not been
\* called when no leaf differs.
C8_ReplacementDiff ==
  (OnlySet.watched /\ IsObject(OnlySet.old) /\ IsObject(OnlySet.new)
     /\ OnlySet.new # OnlySet.old) =>
     \A e \in OnlySet.expect :
        LET want == {[path |-> e.pre \o l.path, old |-> l.old] : l \in OnlySet.leaves}
        IN IF want = {} THEN CallsOf(e.c) = {}
           ELSE /\ Cardinality(CallsOf(e.c)) = 1
                /\ \A i \in CallsOf(e.c) : Range(calls[i].oldVals) = want

\* C11: cancellation before delivery.  An observer whose subscription was
\* removed while its collector was hot, before the drain ran, is not called
\* with any of the changes its collector had recorded by then.
C11_CancelBeforeDelivery ==
  \A i \in 1..Len(calls) :
     calls[i].c \in DOMAIN hist.cancelled =>
        Range(calls[i].oldVals) \cap Range(hist.cancelled[calls[i].c]) = {}

\* C12: pending set and schedule request.  Outside a running drain, and as
\* long as no observer callback has thrown, hotChangeCollectors is non-empty if
\* and only if a schedule request is outstanding (deliverHandle holds the one
\* request there can be).
C12_HotIffScheduled ==
  (pc = "idle" /\ deliverHandle # "done") =>
     (hotChangeCollectors # {} <=> deliverHandle = "handle")

\* C14: an uninterceptable property is a reported failure.  Every observe()
\* call on an object that has a non-configurable own property has thrown.
C14_SetupFailureReported ==
  \A c \in DOMAIN target :
     (\E prop \in KeySet(target[c]) : NonConfigurable(target[c], prop)) => c \in hist.failed

\* Some collector holds recorded changes
Pending == \E c \in DOMAIN oldVals : oldVals[c] # <<>>

\* C19: a throwing observer does not stall delivery.  Whatever the callbacks
\* do, recorded changes are delivered in the end: whenever a collector holds
\* changes, a state follows where none does.
C19_ThrowDoesNotStall == Pending ~> ~Pending

\* The notifications collector d takes and the map it holds when, from state
\* st, a1[1][a1[2]] = a1[3] and then a2[1][a2[2]] = a2[3] are assigned
Outlook(st, d, a1, a2) ==
  LET s1 == assign(st, a1[1], a1[2], a1[3])
      s2 == assign(s1, a2[1], a2[2], a2[3])
  IN [notes |-> SelectSeq(s2.notes, LAMBDA n : n.c = d), oldVals |-> s2.oldVals[d]]

\* A step that is remove() of collector c's subscription: a call made outside
\* a drain, that is no observe() call and no assignment
RemoveStep(c) ==
  /\ pc = "idle" /\ pc' = "idle" /\ seq' = seq /\ nsets' = nsets
  /\ Remove(c)

\* What a step that is remove() of collector c's subscription may change
RemoveFrame(c) ==
  /\ UNCHANGED <<val, captured, nestedWatcher, accessors, seq, oldVals, target,
                 hotChangeCollectors, deliverHandle, pc, queue>>
  /\ DOMAIN map' = DOMAIN map
  /\ \A o \in DOMAIN map :
       map'[o] = IF o = target[c]
                 THEN SelectSeq(map[o], LAMBDA l : l # Collector(c))
                 ELSE map[o]
  /\ c \in DOMAIN removed => map' = map
  /\ \A d \in DOMAIN target \ {c} : \A a1, a2 \in dom :
       Outlook(Cur', d, a1, a2) = Outlook(Cur, d, a1, a2)

\* C13: removing one observer leaves the others untouched.  remove() takes
\* the listener of its own observer out of the object's listeners and changes
\* nothing else: not the values, the accessors' closures and nested watches,
\* the other listeners and their order, nor what any two later assignments
\* notify to every other observer; a second remove() changes nothing at all.
C13_RemoveLeavesOthers ==
  [][\A c \in DOMAIN target : RemoveStep(c) => RemoveFrame(c)]_vars

\* The first of two observers of an object was removed, and the second one
\* has since been called with a change.
C13_Witness ==
  \E c \in DOMAIN removed : \E d \in Held :
     /\ target[d] = target[c] /\ c < d
     /\ \E i \in CallsOf(d) : calls[i].oldVals # <<>>

\* C15: the nested watch follows the current value.  Once a property that
\* held an object has been assigned another value, and with no subscription
\* removed, the assignment of a differing primitive to a property of an object
\* notifies exactly the observers that reach this object through the values
\* the properties hold now, each under the dotted path it has now: none for
\* the object that was replaced, all of them for the object that replaced it.
\* And a property that holds no object has no nested watch, one that holds an
\* object has the nested watch of that object.
C15_NestedWatchFollows ==
  /\ (last.watched /\ ~last.pristine /\ removed = <<>>
        /\ ~IsObject(last.new) /\ last.new # last.old /\ ~last.threw) =>
       {[c |-> n.c, path |-> n.path, old |-> n.old] : n \in Range(last.notes)}
         = {[c |-> e.c, path |-> e.path, old |-> last.old] : e \in last.expect}
  /\ \A o \in DOMAIN map : \A prop \in KeySet(o) :
       IF IsObject(val[o][prop])
       THEN nestedWatcher[o][prop] # <<>> /\ nestedWatcher[o][prop][1].pojo = val[o][prop]
       ELSE nestedWatcher[o][prop] = <<>>

\* The change the last assignment an observer made to its own object recorded
Reentrant == [path |-> hist.reent.path, old |-> hist.reent.old]

\* C16: a re-entrant mutation starts a fresh batch.  When the callback of an
\* observer assigns a differing primitive to a property of the object it
\* observes, the map its collector holds right after holds this change alone,
\* with the value the property had just before the assignment, and the
\* collector is hot again; from then on the change is either still held by
\* the collector, hot or in the snapshot of the running pass, or was passed to
\* the same callback in a later pass of the same drain, and it has been
\* passed once the drain is over.
C16_ReentrantFreshBatch ==
  hist.reent.c >= 0 =>
     LET c == hist.reent.c
     IN /\ (/\ last.ctx = "drain" /\ calls[Len(calls)].c = c
            /\ last.o = target[c] /\ last.p = hist.reent.path
            /\ last.old = hist.reent.old /\ last.new # last.old /\ ~IsObject(last.new)) =>
             /\ oldVals[c] = <<Reentrant>>
             /\ c \in hotChangeCollectors /\ hotAt[c] = hist.reent.pass
             /\ calls[Len(calls)].pass = hist.reent.pass
        /\ \/ /\ c \in hotChangeCollectors \cup Range(queue)
              /\ Reentrant \in Range(oldVals[c])
           \/ \E i \in CallsOf(c) :
                calls[i].pass > hist.reent.pass /\ Reentrant \in Range(calls[i].oldVals)

\* The drain is over: the callback that changed its own object in one pass
\* was called with this change in the next.
C16_Witness ==
  /\ Quiet /\ hist.reent.c >= 0
  /\ \E i \in CallsOf(hist.reent.c) :
       calls[i].pass = hist.reent.pass + 1 /\ Reentrant \in Range(calls[i].oldVals)

\* C17: the drain terminates and leaves the engine quiescent.  A running
\* drain returns; it returns after a pass whose snapshot was empty, leaving
\* no collector hot, no schedule request outstanding and every collector's
\* map empty; and the next assignment that notifies a listener requests a
\* schedule.
C17_DrainTerminates ==
  /\ (pc = "drain") ~> (pc = "idle")
  /\ [][(pc = "drain" /\ pc' = "idle") =>
          /\ queue = <<>> /\ hotChangeCollectors = {}
          /\ hotChangeCollectors' = {} /\ deliverHandle' = "null"
          /\ \A c \in DOMAIN oldVals' : oldVals'[c] = <<>>]_vars
  /\ [][(Quiet /\ last'.notes # <<>>) => (last'.sched /\ deliverHandle' = "handle")]_vars

\* A drain of two passes is over: an observer callback had made an assignment.
C17_Witness ==
  /\ Quiet /\ epoch.cascade
  /\ \E i \in 1..Len(calls) : calls[i].pass = 2
  /\ \A c \in DOMAIN oldVals : oldVals[c] = <<>>

\* C18: no empty deliveries.  Every map an observer callback is called with
\* holds at least one changed path.
C18_NoEmptyDeliveries ==
  \A i \in 1..Len(calls) : calls[i].oldVals # <<>>

\* C20: object over non-object.  Assigning an object to an intercepted property
\* that held undefined, null or a primitive returns without an error, and every
\* leaf of the new object is notified to every listener as an added leaf: the
\* path of the leaf under the property, with the old value undefined.
C20_ObjectOverNonObject ==
  (last.watched /\ ~IsObject(last.old) /\ IsObject(last.new)) =>
     /\ ~last.threw
     /\ \A e \in last.expect :
          \A l \in LeafChanges(val, "none", last.new, last.p \o ".") :
             \E i \in 1..Len(last.notes) :
                /\ last.notes[i].c = e.c
                /\ last.notes[i].path = e.pre \o l.path
                /\ last.notes[i].old = "undefined"

====
